---- MODULE Spec2Model ----
(***************************************************************************)
(* A model of package db of michaldziurowski/one: the generic row decoders *)
(* scanRow and Scan, the name derivation toSnakeCase, the row sequences   *)
(* ScanAll and (legacy) Query, and the package's handle with Init, the     *)
(* close functions Init returns and the entry points that use the handle;  *)
(* and of package s3: its Init, the close functions it returns and Upload. *)
(*                                                                         *)
(* Strings that the code inspects rune by rune (identifiers, tags, column  *)
(* names) are sequences of one-character strings.  A driver value is a     *)
(* record [t, i, s]: t is its Go type as handed over by the SQLite driver  *)
(* ("null", "int64", "string"), i its integer and s its text content.  A   *)
(* Go field value is a record [k, nil, i, s]: k the field's kind, nil      *)
(* whether a pointer field is nil, i/s the content (of the pointee for a   *)
(* pointer kind; a float64 holds the whole number i).                      *)
(***************************************************************************)
EXTENDS Integers, Sequences, FiniteSets, TLC

\* ------------------------------------------------------------------ bounds

\* The longest ColumnSet the decoders are given.
MaxCols == 3

\* The longest cursor a sequence iterates over.
MaxRows == 3

\* How many times a consumer ranges over one sequence value.
MaxIterations == 2

\* The longest identifier toSnakeCase is given.
MaxIdent == 3

\* How many times Init is called, in package db and in package s3.
MaxInits == 2

\* How many times one close function is called.
MaxCloseCalls == 2

\* --------------------------------------------------------------- variables

VARIABLES
    dT,         \* decoder: the target type T
    dCols,      \* decoder: the row's column names
    dVals,      \* decoder: the row's driver values
    dOp,        \* decoder: "input", then the entry point that ran
    dHas,       \* decoder: whether the *sql.Row held a row (Scan)
    dRes,       \* decoder: the (T, error) returned
    itMode,     \* sequence: "ScanAll" or "Query"
    itT,        \* sequence: the target type T
    itCols,     \* sequence: what rows.Columns() reports
    itRows,     \* sequence: the cursor's rows, each a list of driver values
    pc,         \* sequence: where the iterator function stands
    pos,        \* sequence: rows the cursor has advanced to (Next = true)
    iterErr,    \* sequence: whether rows.Err() is non-nil
    ctxDone,    \* sequence: whether ctx.Done() is closed
    iteration,  \* sequence: times the consumer began to range over it
    closed,     \* sequence: whether the cursor held is closed
    delivered,  \* sequence: the items handed to yield in this iteration
    scanCalls,  \* sequence: calls of scanRow in this iteration
    nextCalls,  \* sequence: calls of rows.Next in this iteration
    closeCalls, \* sequence: calls of rows.Close in this iteration
    snIn,       \* toSnakeCase: the identifier given
    snOut,      \* toSnakeCase: what it returned for snIn
    snTwice,    \* toSnakeCase: what it returned for snOut
    snOp,       \* toSnakeCase: "input", then "once", then "twice"
    db,         \* package: the handle `var db *sql.DB`, 0 for nil
    conns,      \* package: the connections sql.Open returned, in order
    closeFuncs, \* package: the close functions Init returned, in order
    inits,      \* package: calls of Init
    lastCall,   \* package: the last call of an entry point and its outcome
    client,     \* s3: `client *s3.Client`, 0 for nil, else the Init that made it
    uploader,   \* s3: `uploader *manager.Uploader`, 0 for nil, else its Init
    bucketName, \* s3: `bucketName string`
    s3Inits,    \* s3: calls of Init
    s3Funcs,    \* s3: close functions Init has returned
    s3InitRes,  \* s3: the last Init's error, and whether uploader was nil before
    uploadRes   \* s3: what the last Upload returned

decVars == <<dT, dCols, dVals, dOp, dHas, dRes>>
itVars == <<itMode, itT, itCols, itRows, pc, pos, iterErr, ctxDone,
            iteration, closed, delivered, scanCalls, nextCalls, closeCalls>>
snVars == <<snIn, snOut, snTwice, snOp>>
dbVars == <<db, conns, closeFuncs, inits, lastCall>>
s3Vars == <<client, uploader, bucketName, s3Inits, s3Funcs, s3InitRes, uploadRes>>
vars == <<decVars, itVars, snVars, dbVars, s3Vars>>

\* What a call of a decoder, a step of a sequence, a call of toSnakeCase and
\* a call on the package's handle leave alone.
nonDecVars == <<itVars, snVars, dbVars, s3Vars>>
nonItVars == <<decVars, snVars, dbVars, s3Vars>>
nonSnVars == <<decVars, itVars, dbVars, s3Vars>>
nonDbVars == <<decVars, itVars, snVars, s3Vars>>
nonS3Vars == <<decVars, itVars, snVars, dbVars>>

\* ------------------------------------------------------------- toSnakeCase

UpperLetters ==
    <<"A","B","C","D","E","F","G","H","I","J","K","L","M",
      "N","O","P","Q","R","S","T","U","V","W","X","Y","Z">>

LowerLetters ==
    <<"a","b","c","d","e","f","g","h","i","j","k","l","m",
      "n","o","p","q","r","s","t","u","v","w","x","y","z">>

\* Two runes outside ASCII, named by their code points.  U+1D400 (mathematical
\* bold capital A) is an upper-case letter with no lower-case form; U+01C5 is
\* a title-case letter, not upper-case, whose lower-case form is U+01C6.
UpperNoLower == "U+1D400"
TitleCase == "U+01C5"
LowerOfTitleCase == "U+01C6"

\* unicode.ToLower on the runes it changes.
LowerOf ==
    [r \in {UpperLetters[i] : i \in 1..Len(UpperLetters)} \cup {TitleCase} |->
        IF r = TitleCase THEN LowerOfTitleCase
        ELSE LowerLetters[CHOOSE i \in 1..Len(UpperLetters) : UpperLetters[i] = r]]

\* unicode.IsUpper
UpperRunes == {UpperLetters[i] : i \in 1..Len(UpperLetters)} \cup {UpperNoLower}

IsUpper(r) == r \in UpperRunes

ToLower(r) == IF r \in DOMAIN LowerOf THEN LowerOf[r] ELSE r

\* toSnakeCase without the `i > 0` test: a leading upper-case rune gets an
\* underscore as well.
toSnakeCaseLeadingUnderscore(s) ==
    LET out[i \in 0..Len(s)] ==
            IF i = 0 THEN <<>>
            ELSE IF IsUpper(s[i])
                 THEN out[i-1] \o <<"_", ToLower(s[i])>>
                 ELSE out[i-1] \o <<s[i]>>
    IN out[Len(s)]

\* for i, r := range s: an upper-case rune is written lower-cased, after a
\* '_' unless it is the first rune; any other rune is written as it is.
toSnakeCase(s) ==
    LET out[i \in 0..Len(s)] ==
            IF i = 0 THEN <<>>
            ELSE IF IsUpper(s[i])
                 THEN out[i-1] \o (IF i > 1 THEN <<"_">> ELSE <<>>) \o <<ToLower(s[i])>>
                 ELSE out[i-1] \o <<s[i]>>
    IN out[Len(s)]

\* ------------------------------------------------- driver values and kinds

\* What the SQLite driver hands to database/sql for one column of one row.
Null == [t |-> "null", i |-> 0, s |-> ""]
SInt(n) == [t |-> "int64", i |-> n, s |-> ""]
SStr(x) == [t |-> "string", i |-> 0, s |-> x]

\* The switch on fieldType.Kind(): the kinds given a sql.Null* wrapper.
WrappedKinds == {"string", "int", "int64", "float64", "bool"}

\* The kinds that take the default branch: other primitives and pointers.
PointerKinds == {"ptr_string", "ptr_int"}
OtherPrimitiveKinds == {"int32", "float32"}

IsPtr(k) == k \in PointerKinds

Elem(k) == CASE k = "ptr_string" -> "string"
             [] k = "ptr_int" -> "int"
             [] OTHER -> k

\* var result T: the zero value of a field of kind k.
Zero(k) == [k |-> k, nil |-> IsPtr(k), i |-> 0, s |-> ""]

Kinds(T) == IF T.struct THEN [f \in 1..Len(T.fields) |-> T.fields[f].kind]
            ELSE <<T.kind>>

ZeroOf(T) == [f \in 1..Len(Kinds(T)) |-> Zero(Kinds(T)[f])]

\* ------------------------------------- database/sql's conversion of a value

Digits == <<"0","1","2","3","4","5","6","7","8","9">>

\* strconv.FormatInt on the model's integers.
FormatInt(n) == Digits[n + 1]

\* asString(src): a string as it is, an int64 formatted.
asString(src) == IF src.t = "string" THEN src.s ELSE FormatInt(src.i)

\* strconv.ParseInt / ParseFloat: only a numeral parses.
ParseNum(x) ==
    IF \E n \in 0..9 : Digits[n + 1] = x
    THEN [err |-> "", i |-> (CHOOSE n \in 0..9 : Digits[n + 1] = x), s |-> ""]
    ELSE [err |-> "convert", i |-> 0, s |-> ""]

\* driver.Bool.ConvertValue: 1 and 0, or a string strconv.ParseBool takes.
ConvertBool(src) ==
    IF src.t = "int64"
    THEN IF src.i \in {0, 1} THEN [err |-> "", i |-> src.i, s |-> ""]
         ELSE [err |-> "convert", i |-> 0, s |-> ""]
    ELSE IF src.s \in {"1", "t", "T", "TRUE", "true", "True"}
         THEN [err |-> "", i |-> 1, s |-> ""]
         ELSE IF src.s \in {"0", "f", "F", "FALSE", "false", "False"}
              THEN [err |-> "", i |-> 0, s |-> ""]
              ELSE [err |-> "convert", i |-> 0, s |-> ""]

\* convertAssign of a non-NULL src into a destination of primitive kind k.
convertAssign(k, src) ==
    CASE k = "string" -> [err |-> "", i |-> 0, s |-> asString(src)]
      [] k \in {"int", "int64", "int32", "float64", "float32"} -> ParseNum(asString(src))
      [] k = "bool" -> ConvertBool(src)

\* A destination handed to rows.Scan: a sql.Null* wrapper standing for field
\* `field`, the address of field `field` itself, or a discarded `var dummy any`.
WrapperDest(f) == [mode |-> "wrapper", field |-> f]
DirectDest(f) == [mode |-> "direct", field |-> f]
DummyDest == [mode |-> "dummy", field |-> 0]

\* A sql.Null* wrapper before Scan.
NoWrapper == [valid |-> FALSE, i |-> 0, s |-> ""]

\* sql.NullString.Scan and its siblings: NULL clears Valid, anything else is
\* converted into the wrapper's value.
WrapperScan(k, src, p, c) ==
    IF src.t = "null"
    THEN [p EXCEPT !.wrap[c] = NoWrapper]
    ELSE LET r == convertAssign(k, src)
         IN IF r.err # ""
            THEN [p EXCEPT !.err = r.err]
            ELSE [p EXCEPT !.wrap[c] = [valid |-> TRUE, i |-> r.i, s |-> r.s]]

\* DirectScan with an empty string taken for NULL: a pointer field is left
\* nil for it.
DirectScanEmptyIsNull(k, f, src, p) ==
    IF IsPtr(k)
    THEN IF src.t = "null" \/ src = SStr("")
         THEN [p EXCEPT !.val[f] = Zero(k)]
         ELSE LET r == convertAssign(Elem(k), src)
              IN IF r.err # ""
                 THEN [p EXCEPT !.err = r.err,
                                !.val[f] = [k |-> k, nil |-> FALSE, i |-> 0, s |-> ""]]
                 ELSE [p EXCEPT !.val[f] = [k |-> k, nil |-> FALSE, i |-> r.i, s |-> r.s]]
    ELSE IF src.t = "null"
         THEN [p EXCEPT !.err = "convert"]
         ELSE LET r == convertAssign(k, src)
              IN IF r.err # ""
                 THEN [p EXCEPT !.err = r.err]
                 ELSE [p EXCEPT !.val[f] = [k |-> k, nil |-> FALSE, i |-> r.i, s |-> r.s]]

\* convertAssign into the address of a field: a pointer field is set to nil
\* for NULL and to a fresh pointee otherwise, which is then converted into; a
\* non-pointer field cannot take NULL.
DirectScan(k, f, src, p) ==
    IF IsPtr(k)
    THEN IF src.t = "null"
         THEN [p EXCEPT !.val[f] = Zero(k)]
         ELSE LET r == convertAssign(Elem(k), src)
              IN IF r.err # ""
                 THEN [p EXCEPT !.err = r.err,
                                !.val[f] = [k |-> k, nil |-> FALSE, i |-> 0, s |-> ""]]
                 ELSE [p EXCEPT !.val[f] = [k |-> k, nil |-> FALSE, i |-> r.i, s |-> r.s]]
    ELSE IF src.t = "null"
         THEN [p EXCEPT !.err = "convert"]
         ELSE LET r == convertAssign(k, src)
              IN IF r.err # ""
                 THEN [p EXCEPT !.err = r.err]
                 ELSE [p EXCEPT !.val[f] = [k |-> k, nil |-> FALSE, i |-> r.i, s |-> r.s]]

\* (*sql.Rows).Scan: the destinations must be as many as the columns; the
\* columns are then converted in order, stopping at the first that fails,
\* with what the earlier ones wrote left in place.
rowsScan(T, dests, vals, val0) ==
    LET n == Len(dests)
        start == [err |-> "", val |-> val0, wrap |-> [c \in 1..n |-> NoWrapper]]
        step[c \in 0..n] ==
            IF c = 0 THEN start
            ELSE LET p == step[c-1]
                     d == dests[c]
                 IN IF p.err # "" THEN p
                    ELSE CASE d.mode = "dummy" -> p
                           [] d.mode = "wrapper" ->
                                WrapperScan(Kinds(T)[d.field], vals[c], p, c)
                           [] d.mode = "direct" ->
                                DirectScan(Kinds(T)[d.field], d.field, vals[c], p)
    IN IF Len(vals) # n
       THEN [start EXCEPT !.err = "dest_count"]
       ELSE step[n]

\* The loop over nullableFields: a wrapper's value if Valid, else the zero
\* value, is set into the wrapper's field.
setNullable(T, dests, p) ==
    [f \in 1..Len(Kinds(T)) |->
        IF \E c \in 1..Len(dests) : dests[c] = WrapperDest(f)
        THEN LET c == CHOOSE c \in 1..Len(dests) : dests[c] = WrapperDest(f)
                 w == p.wrap[c]
             IN IF w.valid
                THEN [k |-> Kinds(T)[f], nil |-> FALSE, i |-> w.i, s |-> w.s]
                ELSE Zero(Kinds(T)[f])
        ELSE p.val[f]]

\* ---------------------------------------------------------------- scanRow

\* columnName with the derived name tried first: the tag is used only when
\* the field has no name to derive from.
columnNameDerivedFirst(field) ==
    IF field.name # <<>> THEN toSnakeCase(field.name) ELSE field.tag

\* field.Tag.Get("db"), and toSnakeCase(field.Name) when it is empty.
columnName(field) ==
    IF field.tag # <<>> THEN field.tag ELSE toSnakeCase(field.name)

\* columnToField with a name already entered left alone: of the fields that
\* resolve to one name the first keeps it.
columnToFieldFirstWins(T) ==
    LET names == [f \in 1..Len(T.fields) |-> columnName(T.fields[f])]
        set == {f \in 1..Len(T.fields) : T.fields[f].settable}
    IN [nm \in {names[f] : f \in set} |->
          CHOOSE f \in set : names[f] = nm /\ \A g \in set : names[g] = nm => f <= g]

\* columnToField after the loop over the fields: a map from column name to
\* field, whose entry is overwritten by each settable field of that name, so
\* that the last one stays.
columnToField(T) ==
    LET names == [f \in 1..Len(T.fields) |-> columnName(T.fields[f])]
        set == {f \in 1..Len(T.fields) : T.fields[f].settable}
    IN [nm \in {names[f] : f \in set} |->
          CHOOSE f \in set : names[f] = nm /\ \A g \in set : names[g] = nm => g <= f]

\* scanValues[i] for column i: a wrapper for a field of a wrapped kind, the
\* field's address for any other field, a dummy when no field has the name.
scanValue(T, map, column) ==
    IF column \in DOMAIN map
    THEN IF T.fields[map[column]].kind \in WrappedKinds THEN WrapperDest(map[column])
         ELSE DirectDest(map[column])
    ELSE DummyDest

\* scanRowStruct with the destinations taken in declaration order, as Scan
\* takes them, whatever the columns are called.
scanRowStructPositional(T, columns, vals) ==
    LET dests == [c \in 1..Len(columns) |->
                    IF c > Len(T.fields) THEN DummyDest
                    ELSE IF T.fields[c].kind \in WrappedKinds THEN WrapperDest(c)
                         ELSE DirectDest(c)]
        p == rowsScan(T, dests, vals, ZeroOf(T))
    IN IF p.err # ""
       THEN [err |-> p.err, val |-> p.val]
       ELSE [err |-> "", val |-> setNullable(T, dests, p)]

\* scanRowStruct with a column that no field bears the name of refused
\* instead of scanned into a dummy.
scanRowStructStrict(T, columns, vals) ==
    LET map == columnToField(T)
        dests == [c \in 1..Len(columns) |-> scanValue(T, map, columns[c])]
        p == rowsScan(T, dests, vals, ZeroOf(T))
    IN IF \E c \in 1..Len(columns) : columns[c] \notin DOMAIN map
       THEN [err |-> "unknown_column", val |-> ZeroOf(T)]
       ELSE IF p.err # ""
            THEN [err |-> p.err, val |-> p.val]
            ELSE [err |-> "", val |-> setNullable(T, dests, p)]

scanRowStruct(T, columns, vals) ==
    LET map == columnToField(T)
        dests == [c \in 1..Len(columns) |-> scanValue(T, map, columns[c])]
        p == rowsScan(T, dests, vals, ZeroOf(T))
    IN IF p.err # ""
       THEN [err |-> p.err, val |-> p.val]
       ELSE [err |-> "", val |-> setNullable(T, dests, p)]

\* scanRowScalar without the count of the columns: the first column is
\* scanned and the others are dropped.
scanRowScalarFirstColumn(T, columns, vals) ==
    IF Len(columns) < 1
    THEN [err |-> "scalar_columns", val |-> ZeroOf(T)]
    ELSE LET p == rowsScan(T, <<DirectDest(1)>>, <<vals[1]>>, ZeroOf(T))
         IN [err |-> p.err, val |-> p.val]

scanRowScalar(T, columns, vals) ==
    IF Len(columns) # 1
    THEN [err |-> "scalar_columns", val |-> ZeroOf(T)]
    ELSE LET p == rowsScan(T, <<DirectDest(1)>>, vals, ZeroOf(T))
         IN [err |-> p.err, val |-> p.val]

\* scanRow[T](rows, columns), rows standing on a row holding vals.
scanRow(T, columns, vals) ==
    IF ~T.struct THEN scanRowScalar(T, columns, vals)
    ELSE scanRowStruct(T, columns, vals)

\* ------------------------------------------------------------------- Scan

\* The settable fields of T, in declaration order.
RECURSIVE settableFrom(_, _)
settableFrom(T, f) ==
    IF f > Len(T.fields) THEN <<>>
    ELSE (IF T.fields[f].settable THEN <<f>> ELSE <<>>) \o settableFrom(T, f + 1)

settableFields(T) == settableFrom(T, 1)

\* scanDests without the CanSet test: a destination for every field.
scanDestsEveryField(T) ==
    [f \in 1..Len(T.fields) |->
        IF T.fields[f].kind \in WrappedKinds THEN WrapperDest(f)
        ELSE DirectDest(f)]

\* scanValues of Scan: one destination per settable field, in declaration
\* order, wrapped or direct by the field's kind.
scanDests(T) ==
    LET fs == settableFields(T)
    IN [j \in 1..Len(fs) |->
          IF T.fields[fs[j]].kind \in WrappedKinds THEN WrapperDest(fs[j])
          ELSE DirectDest(fs[j])]

\* (*sql.Row).Scan: sql.ErrNoRows when the query matched no row, else
\* (*sql.Rows).Scan on its first row.
rowScan(T, has, dests, vals) ==
    IF ~has
    THEN [err |-> "no_rows", val |-> ZeroOf(T), wrap |-> [c \in 1..Len(dests) |-> NoWrapper]]
    ELSE rowsScan(T, dests, vals, ZeroOf(T))

\* Scan[T](row): the result is returned as it stands when row.Scan fails.
Scan(T, has, vals) ==
    LET dests == IF T.struct THEN scanDests(T) ELSE <<DirectDest(1)>>
        p == rowScan(T, has, dests, vals)
    IN IF p.err # ""
       THEN [err |-> p.err, val |-> p.val]
       ELSE [err |-> "", val |-> IF T.struct THEN setNullable(T, dests, p) ELSE p.val]

\* ------------------------------------------------------ targets and inputs

Field(name, tag, kind, settable) ==
    [name |-> name, tag |-> tag, kind |-> kind, settable |-> settable]

ScalarT(kind) == [struct |-> FALSE, kind |-> kind, fields |-> <<>>]
StructT(fields) == [struct |-> TRUE, kind |-> "", fields |-> fields]

\* Column names.
id == <<"i","d">>
i_d == <<"i","_","d">>
user_name == <<"u","s","e","r","_","n","a","m","e">>
optional_bio == <<"o","p","t","i","o","n","a","l","_","b","i","o">>
age == <<"a","g","e">>
rate == <<"r","a","t","e">>
score == <<"s","c","o","r","e">>
first == <<"f","i","r","s","t">>
last == <<"l","a","s","t">>
count == <<"c","o","u","n","t">>
secret == <<"s","e","c","r","e","t">>
name == <<"n","a","m","e">>
Name == <<"N","a","m","e">>
active == <<"a","c","t","i","v","e">>

\* The example's User: a tagged int, a string and an optional string.
User ==
    StructT(<<Field(<<"I","D">>, id, "int", TRUE),
              Field(<<"U","s","e","r","N","a","m","e">>, <<>>, "string", TRUE),
              Field(<<"O","p","t","i","o","n","a","l","B","i","o">>, <<>>, "ptr_string", TRUE)>>)

\* A pointer field ahead of primitives of kinds the switch does not name.
Stats ==
    StructT(<<Field(<<"O","p","t","i","o","n","a","l","B","i","o">>, <<>>, "ptr_string", TRUE),
              Field(<<"A","g","e">>, <<>>, "int32", TRUE),
              Field(<<"R","a","t","e">>, <<>>, "float32", TRUE),
              Field(<<"S","c","o","r","e">>, <<>>, "float64", TRUE)>>)

\* Two fields of one type, an optional int and an unexported field.
Pair ==
    StructT(<<Field(<<"F","i","r","s","t">>, <<>>, "string", TRUE),
              Field(<<"L","a","s","t">>, <<>>, "string", TRUE),
              Field(<<"C","o","u","n","t">>, <<>>, "ptr_int", TRUE),
              Field(<<"s","e","c","r","e","t">>, <<>>, "int", FALSE)>>)

\* Tags of either casing, one of them the derived name of another field.
Tagged ==
    StructT(<<Field(<<"U","s","e","r","N","a","m","e">>, Name, "string", TRUE),
              Field(<<"N","a","m","e">>, <<>>, "int64", TRUE),
              Field(<<"A","c","t","i","v","e">>, user_name, "bool", TRUE)>>)

\* Two fields that resolve to one column name, the first by its tag and the
\* second by derivation.
Alias ==
    StructT(<<Field(<<"N","i","c","k">>, name, "string", TRUE),
              Field(<<"N","a","m","e">>, <<>>, "string", TRUE)>>)

Targets == {ScalarT("int"), ScalarT("string"), User, Stats, Pair, Tagged, Alias}

\* The column names a query for target T is given to choose from.
Pool(T) ==
    CASE T = User -> {id, i_d, user_name, optional_bio}
      [] T = Stats -> {optional_bio, age, rate, score}
      [] T = Pair -> {first, last, count, secret}
      [] T = Tagged -> {Name, name, user_name, active}
      [] T = Alias -> {name, Name, first}
      [] OTHER -> {id, user_name}

\* The values a column is given: NULL, the empty and a non-numeric string,
\* and an integer.
SrcVals == {Null, SStr(""), SStr("a"), SInt(1)}

\* ColumnSets of distinct names.
Distinct(q) == \A a, b \in 1..Len(q) : a # b => q[a] # q[b]

\* ----------------------------------------------- the decoders, one call each

\* The sequence side at rest.
ItIdle ==
    /\ itMode = "ScanAll"
    /\ itT = ScalarT("int")
    /\ itCols = <<>>
    /\ itRows = <<>>
    /\ pc = "idle"
    /\ pos = 0
    /\ iterErr = FALSE
    /\ ctxDone = FALSE
    /\ iteration = 0
    /\ closed = FALSE
    /\ delivered = <<>>
    /\ scanCalls = 0
    /\ nextCalls = 0
    /\ closeCalls = 0

\* The name derivation at rest.
SnIdle ==
    /\ snIn = <<>>
    /\ snOut = <<>>
    /\ snTwice = <<>>
    /\ snOp = "idle"

NoCall == [fn |-> "none", nil |-> FALSE, outcome |-> "none"]

\* The package before any call of Init: `var db *sql.DB` is nil.
DbIdle ==
    /\ db = 0
    /\ conns = <<>>
    /\ closeFuncs = <<>>
    /\ inits = 0
    /\ lastCall = NoCall

NoInit == [err |-> "", nilBefore |-> TRUE]

\* Package s3 before any call of its Init: the three variables are zero.
S3Idle ==
    /\ client = 0
    /\ uploader = 0
    /\ bucketName = ""
    /\ s3Inits = 0
    /\ s3Funcs = 0
    /\ s3InitRes = NoInit
    /\ uploadRes = "none"

NoResult == [err |-> "", val |-> <<>>]

DecInit ==
    /\ dT \in Targets
    /\ \E n \in 0..MaxCols :
          /\ dCols \in {q \in [1..n -> Pool(dT)] : Distinct(q)}
          /\ dVals \in [1..n -> SrcVals]
    /\ dOp = "input"
    /\ dHas = TRUE
    /\ dRes = NoResult
    /\ ItIdle
    /\ SnIdle
    /\ DbIdle
    /\ S3Idle

\* for row := range ScanAll[T](rows): scanRow on the current row.
DoScanRow ==
    /\ dOp = "input"
    /\ dOp' = "scanRow"
    /\ dRes' = scanRow(dT, dCols, dVals)
    /\ UNCHANGED <<dT, dCols, dVals, dHas, nonDecVars>>

\* Scan[T](row) on a row handle that holds the row, or holds none.
DoScan ==
    /\ dOp = "input"
    /\ \E has \in BOOLEAN :
          /\ dHas' = has
          /\ dRes' = Scan(dT, has, dVals)
    /\ dOp' = "Scan"
    /\ UNCHANGED <<dT, dCols, dVals, nonDecVars>>

DecNext == DoScanRow \/ DoScan

SpecDecode == DecInit /\ [][DecNext]_vars

\* ------------------------------------------------- ScanAll and Query[T]

\* An item handed to yield: the error (the empty string for nil) and the value.
Item(e, v) == [e |-> e, v |-> v]

\* What the loop body makes of scanRow's return: yield(zero, wrapped error)
\* on an error, yield(result, nil) otherwise.
rowItem(T, r) ==
    IF r.err # "" THEN Item("failed to scan row", ZeroOf(T))
    ELSE Item("", r.val)

\* The decoder side at rest.
DecIdle ==
    /\ dT = ScalarT("int")
    /\ dCols = <<>>
    /\ dVals = <<>>
    /\ dOp = "idle"
    /\ dHas = TRUE
    /\ dRes = NoResult

\* The targets, ColumnSets and rows a cursor is made of: per target two
\* rows that decode and one that does not.
IterShapes ==
    { [T |-> ScalarT("int"), cols |-> <<id>>,
       rows |-> {<<SInt(1)>>, <<SInt(2)>>, <<SStr("a")>>}],
      [T |-> User, cols |-> <<user_name, id>>,
       rows |-> {<<SStr("a"), SInt(1)>>, <<Null, SInt(2)>>, <<SStr("a"), SStr("a")>>}] }

IterInit ==
    /\ itMode \in {"ScanAll", "Query"}
    /\ \E sh \in IterShapes :
          /\ itT = sh.T
          /\ itCols = sh.cols
          /\ \E n \in 0..MaxRows : itRows \in [1..n -> sh.rows]
    /\ pc = "idle"
    /\ pos = 0
    /\ iterErr = FALSE
    /\ ctxDone = FALSE
    /\ iteration = 0
    /\ closed = FALSE
    /\ delivered = <<>>
    /\ scanCalls = 0
    /\ nextCalls = 0
    /\ closeCalls = 0
    /\ DecIdle
    /\ SnIdle
    /\ DbIdle
    /\ S3Idle

\* Return without the deferred rows.Close(): the cursor stays open.
ReturnNoClose ==
    /\ pc' = "done"
    /\ closeCalls' = closeCalls + 1
    /\ closed' = closed

\* return, with `defer rows.Close()` registered.
Return ==
    /\ pc' = "done"
    /\ closeCalls' = closeCalls + 1
    /\ closed' = TRUE

\* The consumer starts to range over the sequence value, for the first time
\* or again after an iteration has ended: the iterator function is called
\* anew.  ScanAll registers the deferred Close and asks the cursor it was
\* given for the columns; Query first opens a cursor.
Begin ==
    /\ pc \in {"idle", "done"}
    /\ iteration < MaxIterations
    /\ iteration' = iteration + 1
    /\ pc' = IF itMode = "ScanAll" THEN "columns" ELSE "query"
    /\ delivered' = <<>>
    /\ scanCalls' = 0
    /\ nextCalls' = 0
    /\ closeCalls' = 0
    /\ UNCHANGED <<itMode, itT, itCols, itRows, pos, iterErr, ctxDone,
                   closed, nonItVars>>

\* Query: db == nil and a failing db.QueryContext each yield one error and
\* return before any cursor is held; otherwise a new cursor, before its
\* first row, is held.
QueryOpen ==
    /\ pc = "query"
    /\ \E outcome \in {"nil_db", "query_error", "rows"} :
          CASE outcome = "nil_db" ->
                  /\ delivered' = Append(delivered, Item("database not initialized", ZeroOf(itT)))
                  /\ pc' = "done"
                  /\ UNCHANGED <<pos, iterErr, closed>>
            [] outcome = "query_error" ->
                  /\ delivered' = Append(delivered, Item("failed to execute query", ZeroOf(itT)))
                  /\ pc' = "done"
                  /\ UNCHANGED <<pos, iterErr, closed>>
            [] outcome = "rows" ->
                  /\ delivered' = delivered
                  /\ pc' = "columns"
                  /\ pos' = 0
                  /\ iterErr' = FALSE
                  /\ closed' = FALSE
    /\ UNCHANGED <<itMode, itT, itCols, itRows, iteration, ctxDone,
                   scanCalls, nextCalls, closeCalls, nonItVars>>

\* Columns without the return after the yield: the error is delivered and
\* the loop over the rows is entered all the same.
ColumnsNoReturn ==
    /\ pc = "columns"
    /\ \E failed \in (IF closed THEN {TRUE} ELSE BOOLEAN) :
          delivered' = IF failed
                       THEN Append(delivered, Item("failed to get columns", ZeroOf(itT)))
                       ELSE delivered
    /\ pc' = "next"
    /\ UNCHANGED <<closeCalls, closed>>
    /\ UNCHANGED <<itMode, itT, itCols, itRows, iteration, pos, iterErr, ctxDone,
                   scanCalls, nextCalls, nonItVars>>

\* columns, err := rows.Columns(), which fails on a closed cursor.
Columns ==
    /\ pc = "columns"
    /\ \E failed \in (IF closed THEN {TRUE} ELSE BOOLEAN) :
          IF failed
          THEN /\ delivered' = Append(delivered, Item("failed to get columns", ZeroOf(itT)))
               /\ Return
          ELSE /\ delivered' = delivered
               /\ pc' = "next"
               /\ UNCHANGED <<closeCalls, closed>>
    /\ UNCHANGED <<itMode, itT, itCols, itRows, iteration, pos, iterErr, ctxDone,
                   scanCalls, nextCalls, nonItVars>>

\* for rows.Next(): true moves the cursor to its next row; false ends the
\* loop, at the end of the rows, on a closed cursor, or earlier on a fault
\* that rows.Err reports.
Next ==
    /\ pc = "next"
    /\ nextCalls' = nextCalls + 1
    /\ \/ /\ ~closed
          /\ pos < Len(itRows)
          /\ pos' = pos + 1
          /\ pc' = "step"
          /\ iterErr' = iterErr
       \/ /\ pos' = pos
          /\ pc' = "err"
          /\ iterErr' \in (IF closed THEN {iterErr}
                           ELSE IF pos < Len(itRows) THEN {TRUE} ELSE BOOLEAN)
    /\ UNCHANGED <<itMode, itT, itCols, itRows, iteration, ctxDone, delivered,
                   scanCalls, closeCalls, closed, nonItVars>>

\* Step without the select on ctx.Done(): scanRow is called whatever the
\* context's state.
StepNoSelect ==
    /\ pc = "step"
    /\ delivered' = delivered
    /\ scanCalls' = scanCalls + 1
    /\ pc' = "scanning"
    /\ UNCHANGED <<closeCalls, closed>>
    /\ UNCHANGED <<itMode, itT, itCols, itRows, iteration, pos, iterErr, ctxDone,
                   nextCalls, nonItVars>>

\* The head of the loop body.  Query selects on ctx.Done() and, when it is
\* closed, yields ctx.Err() and returns; ScanAll has no such select.  In
\* every other case scanRow is called.
Step ==
    /\ pc = "step"
    /\ IF itMode = "Query" /\ ctxDone
       THEN /\ delivered' = Append(delivered, Item("context canceled", ZeroOf(itT)))
            /\ scanCalls' = scanCalls
            /\ Return
       ELSE /\ delivered' = delivered
            /\ scanCalls' = scanCalls + 1
            /\ pc' = "scanning"
            /\ UNCHANGED <<closeCalls, closed>>
    /\ UNCHANGED <<itMode, itT, itCols, itRows, iteration, pos, iterErr, ctxDone,
                   nextCalls, nonItVars>>

\* ScanRowReturns with a failed row skipped: the error is yielded and the
\* loop goes on to the next row.
ScanRowReturnsAndContinues ==
    /\ pc = "scanning"
    /\ LET r == scanRow(itT, itCols, itRows[pos])
       IN /\ delivered' = Append(delivered, rowItem(itT, r))
          /\ pc' = IF r.err # "" THEN "next" ELSE "yield"
          /\ UNCHANGED <<closeCalls, closed>>
    /\ UNCHANGED <<itMode, itT, itCols, itRows, iteration, pos, iterErr, ctxDone,
                   scanCalls, nextCalls, nonItVars>>

\* ScanRowReturns with the scan destinations never refreshed: every step
\* decodes the cursor's first row.
ScanRowReturnsFirstRow ==
    /\ pc = "scanning"
    /\ LET r == scanRow(itT, itCols, itRows[1])
       IN /\ delivered' = Append(delivered, rowItem(itT, r))
          /\ IF r.err # ""
             THEN Return
             ELSE /\ pc' = "yield"
                  /\ UNCHANGED <<closeCalls, closed>>
    /\ UNCHANGED <<itMode, itT, itCols, itRows, iteration, pos, iterErr, ctxDone,
                   scanCalls, nextCalls, nonItVars>>

\* ScanRowReturns with the next row fetched ahead: the cursor is advanced
\* as soon as a row is decoded, before the consumer has answered.
ScanRowReturnsPrefetch ==
    /\ pc = "scanning"
    /\ LET r == scanRow(itT, itCols, itRows[pos])
       IN /\ delivered' = Append(delivered, rowItem(itT, r))
          /\ IF r.err # ""
             THEN /\ Return
                  /\ pos' = pos
             ELSE /\ pc' = "yield"
                  /\ pos' = IF pos < Len(itRows) THEN pos + 1 ELSE pos
                  /\ UNCHANGED <<closeCalls, closed>>
    /\ UNCHANGED <<itMode, itT, itCols, itRows, iteration, iterErr, ctxDone,
                   scanCalls, nextCalls, nonItVars>>

\* scanRow returns: an error is yielded and ends the sequence, a value is
\* yielded and the consumer's answer awaited.
ScanRowReturns ==
    /\ pc = "scanning"
    /\ LET r == scanRow(itT, itCols, itRows[pos])
       IN /\ delivered' = Append(delivered, rowItem(itT, r))
          /\ IF r.err # ""
             THEN Return
             ELSE /\ pc' = "yield"
                  /\ UNCHANGED <<closeCalls, closed>>
    /\ UNCHANGED <<itMode, itT, itCols, itRows, iteration, pos, iterErr, ctxDone,
                   scanCalls, nextCalls, nonItVars>>

\* YieldReturns with rows.Close() called after the loop instead of deferred:
\* a consumer that stops early leaves the cursor open.
YieldReturnsNoDefer ==
    /\ pc = "yield"
    /\ \E more \in BOOLEAN :
          /\ pc' = IF more THEN "next" ELSE "done"
          /\ UNCHANGED <<closeCalls, closed>>
    /\ UNCHANGED <<itMode, itT, itCols, itRows, iteration, pos, iterErr, ctxDone,
                   delivered, scanCalls, nextCalls, nonItVars>>

\* yield(result, nil) returns: true goes on to rows.Next, false returns.
YieldReturns ==
    /\ pc = "yield"
    /\ \E more \in BOOLEAN :
          IF more
          THEN /\ pc' = "next"
               /\ UNCHANGED <<closeCalls, closed>>
          ELSE Return
    /\ UNCHANGED <<itMode, itT, itCols, itRows, iteration, pos, iterErr, ctxDone,
                   delivered, scanCalls, nextCalls, nonItVars>>

\* RowsErr without the look at rows.Err(): the function ends after the loop.
RowsErrIgnored ==
    /\ pc = "err"
    /\ delivered' = delivered
    /\ Return
    /\ UNCHANGED <<itMode, itT, itCols, itRows, iteration, pos, iterErr, ctxDone,
                   scanCalls, nextCalls, nonItVars>>

\* if err := rows.Err(); err != nil { yield(zero, ...) }, and the function ends.
RowsErr ==
    /\ pc = "err"
    /\ delivered' = IF iterErr
                    THEN Append(delivered, Item("row iteration error", ZeroOf(itT)))
                    ELSE delivered
    /\ Return
    /\ UNCHANGED <<itMode, itT, itCols, itRows, iteration, pos, iterErr, ctxDone,
                   scanCalls, nextCalls, nonItVars>>

\* The context the query was made with is cancelled, at any moment.
Cancel ==
    /\ pc # "done"
    /\ ~ctxDone
    /\ ctxDone' = TRUE
    /\ UNCHANGED <<itMode, itT, itCols, itRows, iteration, pc, pos, iterErr, delivered,
                   scanCalls, nextCalls, closeCalls, closed, nonItVars>>

IterNext ==
    \/ Begin
    \/ QueryOpen
    \/ Columns
    \/ Next
    \/ Step
    \/ ScanRowReturns
    \/ YieldReturns
    \/ RowsErr
    \/ Cancel

SpecIter == IterInit /\ [][IterNext]_vars

\* ------------------------------------------------- toSnakeCase, called alone

\* The runes identifiers are made of: upper- and lower-case letters, the
\* underscore, a digit, and the two runes outside ASCII.
IdentRunes == {"I", "D", "a", "_", "1", UpperNoLower, TitleCase}

SnInit ==
    /\ \E n \in 0..MaxIdent : snIn \in [1..n -> IdentRunes]
    /\ snOut = <<>>
    /\ snTwice = <<>>
    /\ snOp = "input"
    /\ DecIdle
    /\ ItIdle
    /\ DbIdle
    /\ S3Idle

\* toSnakeCase(field.Name)
DoSnake ==
    /\ snOp = "input"
    /\ snOut' = toSnakeCase(snIn)
    /\ snOp' = "once"
    /\ UNCHANGED <<snIn, snTwice, nonSnVars>>

\* toSnakeCase on a name that toSnakeCase returned.
DoSnakeAgain ==
    /\ snOp = "once"
    /\ snTwice' = toSnakeCase(snOut)
    /\ snOp' = "twice"
    /\ UNCHANGED <<snIn, snOut, nonSnVars>>

SnNext == DoSnake \/ DoSnakeAgain

SpecSnake == SnInit /\ [][SnNext]_vars

\* --------------------------------------- the package's handle: Init, close

\* Init: without APP_NAME, or when sql.Open fails, nothing is held.  A
\* connection that does not answer the ping is closed by Init itself.
\* Otherwise the handle is set to the new connection, whatever it held, and
\* a close function is returned.
Init ==
    /\ lastCall.outcome # "panic"
    /\ inits < MaxInits
    /\ inits' = inits + 1
    /\ \E outcome \in {"no_app_name", "open_error", "ping_error", "ok"} :
          CASE outcome \in {"no_app_name", "open_error"} ->
                  UNCHANGED <<db, conns, closeFuncs>>
            [] outcome = "ping_error" ->
                  /\ conns' = Append(conns, [ok |-> FALSE, closes |-> 1, by |-> {0}])
                  /\ UNCHANGED <<db, closeFuncs>>
            [] outcome = "ok" ->
                  /\ conns' = Append(conns, [ok |-> TRUE, closes |-> 0, by |-> {}])
                  /\ db' = Len(conns) + 1
                  /\ closeFuncs' = Append(closeFuncs,
                         [conn |-> Len(conns) + 1, calls |-> 0, closed |-> 0, ret |-> "nil"])
    /\ UNCHANGED <<lastCall, nonDbVars>>

\* The i-th close function is called: it closes the connection the handle
\* holds at that moment, if any, sets the handle to nil and returns what
\* Close returned; with a nil handle it returns nil.
closeFunc(i) ==
    /\ lastCall.outcome # "panic"
    /\ closeFuncs[i].calls < MaxCloseCalls
    /\ IF db # 0
       THEN /\ conns' = [conns EXCEPT ![db].closes = @ + 1, ![db].by = @ \cup {i}]
            /\ db' = 0
            /\ \E ret \in {"nil", "error"} :
                  closeFuncs' = [closeFuncs EXCEPT ![i].calls = @ + 1,
                                                    ![i].closed = db,
                                                    ![i].ret = ret]
       ELSE /\ closeFuncs' = [closeFuncs EXCEPT ![i].calls = @ + 1,
                                                ![i].closed = 0,
                                                ![i].ret = "nil"]
            /\ UNCHANGED <<db, conns>>
    /\ UNCHANGED <<inits, lastCall, nonDbVars>>

\* An entry point that tests the handle: `if db == nil { return nil, error }`,
\* a call on the handle otherwise.
Guarded(fn) ==
    /\ lastCall.outcome # "panic"
    /\ lastCall' = [fn |-> fn, nil |-> (db = 0),
                    outcome |-> IF db = 0 THEN "not_initialized" ELSE "delegated"]
    /\ UNCHANGED <<db, conns, closeFuncs, inits, nonDbVars>>

QueryContext == Guarded("QueryContext")

BeginTx == Guarded("BeginTx")

ExecContext == Guarded("ExecContext")

\* QueryRowContext calls db.QueryRowContext on the handle without a test: on
\* a nil handle the call dereferences nil and panics.
QueryRowContext ==
    /\ lastCall.outcome # "panic"
    /\ lastCall' = [fn |-> "QueryRowContext", nil |-> (db = 0),
                    outcome |-> IF db = 0 THEN "panic" ELSE "delegated"]
    /\ UNCHANGED <<db, conns, closeFuncs, inits, nonDbVars>>

DbInit ==
    /\ DbIdle
    /\ DecIdle
    /\ ItIdle
    /\ SnIdle
    /\ S3Idle

DbNext ==
    \/ Init
    \/ \E i \in 1..Len(closeFuncs) : closeFunc(i)
    \/ QueryContext
    \/ QueryRowContext
    \/ BeginTx
    \/ ExecContext

SpecDb == DbInit /\ [][DbNext]_vars

\* ------------------------------------------------ package s3: Init, Upload

\* The values of APP_NAME: unset, and two application names.
AppNames == {"", "app", "other"}

\* ensureBucket: nil when HeadBucket finds the bucket, or reports it missing
\* and CreateBucket succeeds; an error for any other HeadBucket failure and
\* for a failing CreateBucket.
ensureBucket(head, create) ==
    CASE head = "found" -> ""
      [] head = "error" -> "failed to check if bucket exists"
      [] head = "not_found" -> IF create = "ok" THEN "" ELSE "failed to create bucket"

\* s3.Init: without APP_NAME it returns at once.  Otherwise it assigns
\* bucketName, then loads the configuration and returns on a failure; then
\* assigns client and uploader, then calls ensureBucket and returns on a
\* failure; only then it returns a close function.
s3Init ==
    /\ s3Inits < MaxInits
    /\ s3Inits' = s3Inits + 1
    /\ \E appName \in AppNames, cfg \in {"ok", "error"},
          head \in {"found", "not_found", "error"}, create \in {"ok", "error"} :
          IF appName = ""
          THEN /\ s3InitRes' = [err |-> "APP_NAME environment variable is required",
                                nilBefore |-> (uploader = 0)]
               /\ UNCHANGED <<client, uploader, bucketName, s3Funcs>>
          ELSE /\ bucketName' = appName
               /\ IF cfg = "error"
                  THEN /\ s3InitRes' = [err |-> "failed to load AWS config",
                                        nilBefore |-> (uploader = 0)]
                       /\ UNCHANGED <<client, uploader, s3Funcs>>
                  ELSE /\ client' = s3Inits + 1
                       /\ uploader' = s3Inits + 1
                       /\ IF ensureBucket(head, create) # ""
                          THEN /\ s3InitRes' = [err |-> "failed to ensure bucket exists",
                                                nilBefore |-> (uploader = 0)]
                               /\ s3Funcs' = s3Funcs
                          ELSE /\ s3InitRes' = [err |-> "", nilBefore |-> (uploader = 0)]
                               /\ s3Funcs' = s3Funcs + 1
    /\ UNCHANGED <<uploadRes, nonS3Vars>>

\* A close function that s3.Init returned is called: the three variables
\* are set to their zero values.
s3CloseFunc ==
    /\ s3Funcs > 0
    /\ client' = 0
    /\ uploader' = 0
    /\ bucketName' = ""
    /\ UNCHANGED <<s3Inits, s3Funcs, s3InitRes, uploadRes, nonS3Vars>>

\* Upload: the 'not initialized' error when uploader is nil, otherwise the
\* upload is attempted with uploader and bucketName as they stand.
Upload ==
    /\ IF uploader = 0
       THEN uploadRes' = "S3 uploader not initialized"
       ELSE uploadRes' \in {"nil", "failed to upload object"}
    /\ UNCHANGED <<client, uploader, bucketName, s3Inits, s3Funcs, s3InitRes,
                   nonS3Vars>>

S3Init ==
    /\ S3Idle
    /\ DecIdle
    /\ ItIdle
    /\ SnIdle
    /\ DbIdle

S3Next == s3Init \/ s3CloseFunc \/ Upload

SpecS3 == S3Init /\ [][S3Next]_vars

\* ================================================================== claims

\* The first row of the cursor whose decode fails, 0 when every row decodes.
FirstBad ==
    LET bad == {k \in 1..Len(itRows) : scanRow(itT, itCols, itRows[k]).err # ""}
    IN IF bad = {} THEN 0 ELSE CHOOSE k \in bad : \A j \in bad : k <= j

LastItem == delivered[Len(delivered)]

\* C1: over a cursor whose first undecodable row is row k, scanRow is never
\* called more than k times, and once it has returned for row k the sequence
\* has ended having delivered exactly k items: k-1 values, then one error.
C1_FailFastAtFirstBadRow ==
    FirstBad # 0 =>
        /\ scanCalls <= FirstBad
        /\ pos <= FirstBad
        /\ (scanCalls = FirstBad /\ pc # "scanning") =>
              /\ pc = "done"
              /\ Len(delivered) = FirstBad
              /\ \A j \in 1..(FirstBad - 1) : delivered[j].e = ""
              /\ LastItem = Item("failed to scan row", ZeroOf(itT))
              /\ nextCalls = FirstBad

\* A three-row cursor whose second row failed to decode, iterated to its end.
C1_Witness ==
    /\ itMode = "ScanAll"
    /\ Len(itRows) = 3
    /\ FirstBad = 2
    /\ pc = "done"
    /\ scanCalls = 2
    /\ Len(delivered) = 2
    /\ delivered[1].e = ""
    /\ delivered[2].e = "failed to scan row"

\* C2: one iteration of ScanAll calls rows.Close exactly once: not before it
\* returns, and once when it has returned, by whichever path.
C2_ClosedExactlyOnce ==
    itMode = "ScanAll" =>
        /\ pc # "done" => closeCalls = 0
        /\ pc = "done" => closeCalls = 1

\* The consumer stopped after the first of three decodable rows.
C2_Witness ==
    /\ itMode = "ScanAll"
    /\ pc = "done"
    /\ Len(itRows) = 3
    /\ FirstBad = 0
    /\ Len(delivered) = 1
    /\ delivered[1].e = ""
    /\ closeCalls = 1

\* C3 as claimed: in ScanAll and in Query, when the context is cancelled at
\* the head of an iteration step, the step does not call scanRow and ends the
\* sequence with the cancellation error.
C3_CancelEndsEverySequence ==
    [][(pc = "step" /\ ctxDone /\ pc' # "step") =>
          /\ pc' = "done"
          /\ scanCalls' = scanCalls
          /\ delivered' = Append(delivered, Item("context canceled", ZeroOf(itT)))]_vars

\* C3 amended: the check is Query's alone.  In Query a step entered with the
\* context cancelled yields ctx.Err() and returns without calling scanRow;
\* every other step, and every step of ScanAll, calls scanRow; and a scanRow
\* under way always ends in the row's own value or decode error.
C3_QueryAloneChecksCancel ==
    /\ [][(pc = "step" /\ pc' # "step") =>
            IF itMode = "Query" /\ ctxDone
            THEN /\ pc' = "done"
                 /\ scanCalls' = scanCalls
                 /\ delivered' = Append(delivered, Item("context canceled", ZeroOf(itT)))
            ELSE /\ pc' = "scanning"
                 /\ scanCalls' = scanCalls + 1
                 /\ delivered' = delivered]_vars
    /\ [][(pc = "scanning" /\ pc' # "scanning") =>
            delivered' = Append(delivered,
                                rowItem(itT, scanRow(itT, itCols, itRows[pos])))]_vars

\* Query ended on the cancellation, the row the cursor stands on not decoded.
C3_Witness ==
    /\ itMode = "Query"
    /\ pc = "done"
    /\ ctxDone
    /\ Len(delivered) > 0
    /\ LastItem.e = "context canceled"
    /\ pos = 2
    /\ scanCalls = 1

\* ---- the decoders

\* The settable fields of the target.
SettableOf(T) == {f \in 1..Len(T.fields) : T.fields[f].settable}

\* The name a field is looked up by, as the contract words it: the
\* annotation if the field has one, the derived name otherwise.
ResolvedName(field) ==
    IF field.tag # <<>> THEN field.tag ELSE toSnakeCase(field.name)

\* The column of the row that bears the name nm (0 when there is none).
ColNamed(nm) ==
    IF \E c \in 1..Len(dCols) : dCols[c] = nm
    THEN CHOOSE c \in 1..Len(dCols) : dCols[c] = nm
    ELSE 0

\* The column that stands at field f's place among the settable fields.
ColAtPlaceOf(f) == Cardinality({g \in SettableOf(dT) : g <= f})

\* No other settable field of the target resolves to field f's name.
OwnName(f) ==
    \A g \in SettableOf(dT) :
        g # f => ResolvedName(dT.fields[g]) # ResolvedName(dT.fields[f])

\* Value v can be converted into a field of kind k.
Converts(k, v) == v.t # "null" /\ convertAssign(Elem(k), v).err = ""

\* The field of kind k that column value v decodes to: NULL is the zero value
\* (nil for a pointer), anything else the converted value.
Decoded(k, v) ==
    IF v.t = "null" THEN Zero(k)
    ELSE LET r == convertAssign(Elem(k), v)
         IN [k |-> k, nil |-> FALSE, i |-> r.i, s |-> r.s]

NonOptionalPrimitive(k) == k \in WrappedKinds \cup OtherPrimitiveKinds

\* Name-based decoding of a record, every non-NULL column convertible into
\* the field that bears its name.
ByNameCase ==
    /\ dOp = "scanRow"
    /\ dT.struct
    /\ \A f \in SettableOf(dT) :
          LET c == ColNamed(ResolvedName(dT.fields[f]))
          IN c # 0 => (dVals[c] = Null \/ Converts(dT.fields[f].kind, dVals[c]))

\* Declaration-order decoding of a record from a row of as many columns as
\* the target has settable fields, every non-NULL column convertible into the
\* field at its place.
ByPlaceCase ==
    /\ dOp = "Scan"
    /\ dT.struct
    /\ dHas
    /\ Len(dVals) = Cardinality(SettableOf(dT))
    /\ \A f \in SettableOf(dT) :
          LET v == dVals[ColAtPlaceOf(f)]
          IN v = Null \/ Converts(dT.fields[f].kind, v)

\* C4 as claimed: a NULL column of a non-optional primitive field, of any
\* integer or floating-point kind, decodes without error to the zero value,
\* by name (scanRow) and by place (Scan).
C4_NullDecodesToZero ==
    /\ ByNameCase =>
          /\ dRes.err = ""
          /\ \A f \in SettableOf(dT) :
                LET c == ColNamed(ResolvedName(dT.fields[f]))
                IN (NonOptionalPrimitive(dT.fields[f].kind) /\ c # 0 /\ dVals[c] = Null)
                      => dRes.val[f] = Zero(dT.fields[f].kind)
    /\ ByPlaceCase =>
          /\ dRes.err = ""
          /\ \A f \in SettableOf(dT) :
                (NonOptionalPrimitive(dT.fields[f].kind) /\ dVals[ColAtPlaceOf(f)] = Null)
                   => dRes.val[f] = Zero(dT.fields[f].kind)

\* A pointer field fv of kind k against its column's value v: nil for NULL,
\* else a pointee holding v itself when v is of the pointee's type.
OptionalHolds(fv, k, v) ==
    IF v = Null THEN fv.nil
    ELSE /\ ~fv.nil
         /\ (Elem(k) = "string" /\ v.t = "string") => fv.s = v.s
         /\ (Elem(k) = "int" /\ v.t = "int64") => fv.i = v.i
         /\ (Elem(k) = "string" /\ v.t = "int64") => fv.s = FormatInt(v.i)

\* C5: in a decode that succeeds, by name or by place, a pointer field is nil
\* if its column is NULL and otherwise points to the column's value: the very
\* string of a string column (the empty string too), the very integer of an
\* integer column.
C5_OptionalNilOrExactValue ==
    /\ (dOp = "scanRow" /\ dT.struct /\ dRes.err = "") =>
          \A f \in SettableOf(dT) :
             LET c == ColNamed(ResolvedName(dT.fields[f]))
             IN (IsPtr(dT.fields[f].kind) /\ OwnName(f) /\ c # 0)
                   => OptionalHolds(dRes.val[f], dT.fields[f].kind, dVals[c])
    /\ (dOp = "Scan" /\ dT.struct /\ dRes.err = "") =>
          \A f \in SettableOf(dT) :
             IsPtr(dT.fields[f].kind)
                => OptionalHolds(dRes.val[f], dT.fields[f].kind, dVals[ColAtPlaceOf(f)])

\* User decoded by name from a row whose optional_bio is the empty string.
C5_Witness ==
    /\ dOp = "scanRow"
    /\ dT = User
    /\ dRes.err = ""
    /\ ColNamed(optional_bio) # 0
    /\ dVals[ColNamed(optional_bio)] = SStr("")
    /\ ~dRes.val[3].nil
    /\ dRes.val[3].s = ""

\* The permutations of 1..n, for each length of a ColumnSet.
PermsOf ==
    [n \in 0..MaxCols |->
        {q \in [1..n -> 1..n] : \A a, b \in 1..n : a # b => q[a] # q[b]}]

Perms(n) == PermsOf[n]

\* C6: ScanAll's item for a row is the same under every permutation of the
\* ColumnSet and its values, and in a decode that succeeds each field with a
\* name of its own holds the decoded value of the column bearing that name.
C6_ColumnOrderIndependent ==
    (dOp = "scanRow" /\ dT.struct) =>
        /\ \A q \in Perms(Len(dCols)) :
              rowItem(dT, scanRow(dT, [c \in 1..Len(dCols) |-> dCols[q[c]]],
                                      [c \in 1..Len(dCols) |-> dVals[q[c]]]))
                 = rowItem(dT, dRes)
        /\ dRes.err = "" =>
              \A f \in SettableOf(dT) :
                 LET c == ColNamed(ResolvedName(dT.fields[f]))
                 IN (OwnName(f) /\ c # 0)
                       => dRes.val[f] = Decoded(dT.fields[f].kind, dVals[c])

\* User decoded from its three columns in the reverse of declaration order.
C6_Witness ==
    /\ dOp = "scanRow"
    /\ dT = User
    /\ dCols = <<optional_bio, user_name, id>>
    /\ dVals = <<SStr(""), SStr("a"), SInt(1)>>
    /\ dRes.err = ""
    /\ dRes.val[1].i = 1
    /\ dRes.val[2].s = "a"

\* C7: a scalar target and a row of no column or of several: scanRow returns
\* its own column-count error, Scan the destination-count error of row.Scan,
\* and neither returns anything but the zero value.
C7_ScalarNeedsOneColumn ==
    (~dT.struct /\ Len(dCols) # 1) =>
        /\ dOp = "scanRow" => dRes = [err |-> "scalar_columns", val |-> ZeroOf(dT)]
        /\ (dOp = "Scan" /\ dHas) => dRes = [err |-> "dest_count", val |-> ZeroOf(dT)]

\* An int asked of a row of two integer columns, by scanRow.
C7_Witness ==
    /\ dOp = "scanRow"
    /\ dT = ScalarT("int")
    /\ Len(dCols) = 2
    /\ dVals[1] = SInt(1)
    /\ dRes.err = "scalar_columns"

\* C8 as claimed: the value Scan returns beside an error is the zero value.
C8_ScanErrorReturnsZero ==
    (dOp = "Scan" /\ dRes.err # "") => dRes.val = ZeroOf(dT)

\* The names of the target's settable fields, in declaration order.
NamesInOrder(T) ==
    LET fs == settableFields(T)
    IN [j \in 1..Len(fs) |-> ResolvedName(T.fields[fs[j]])]

\* C9 as claimed: Scan fails on a row whose columns are not as many as the
\* settable fields, or are not in the order of their declaration.
C9_ScanRejectsCountAndOrder ==
    (dOp = "Scan" /\ dT.struct /\ dHas /\ dCols # NamesInOrder(dT)) => dRes.err # ""

\* C9 amended: Scan fails with the destination-count error when the columns
\* are not as many as the settable fields.  When they are, it pays no regard
\* to their names: it succeeds exactly when each column is NULL into a
\* pointer or wrapped kind or converts into the field at its place, and then
\* each settable field holds the decoded value of the column at its place.
C9_ScanAssignsByPlace ==
    (dOp = "Scan" /\ dT.struct /\ dHas) =>
        IF Len(dVals) # Cardinality(SettableOf(dT))
        THEN dRes.err = "dest_count"
        ELSE /\ dRes.err = "" <=>
                   \A f \in SettableOf(dT) :
                      LET v == dVals[ColAtPlaceOf(f)]
                          k == dT.fields[f].kind
                      IN \/ v = Null /\ k \in WrappedKinds \cup PointerKinds
                         \/ Converts(k, v)
             /\ dRes.err = "" =>
                   \A f \in SettableOf(dT) :
                      dRes.val[f] = Decoded(dT.fields[f].kind, dVals[ColAtPlaceOf(f)])
             /\ dRes.err \in {"", "convert"}

\* Pair scanned from a row whose first two columns are swapped: First holds
\* the column named last.
C9_Witness ==
    /\ dOp = "Scan"
    /\ dT = Pair
    /\ dHas
    /\ dCols = <<last, first, count>>
    /\ dVals = <<SStr("a"), SStr(""), SInt(1)>>
    /\ dRes.err = ""
    /\ dRes.val[1].s = "a"
    /\ dRes.val[2].s = ""

\* C10: in name-based decoding that succeeds, a field with a db tag holds the
\* decoded value of the column named exactly as the tag, and its zero value
\* when no column is so named, whatever column bears its derived name; a
\* field without a tag is looked up by its derived name.
C10_TagWinsOverDerivedName ==
    (dOp = "scanRow" /\ dT.struct /\ dRes.err = "") =>
        \A f \in SettableOf(dT) :
           LET fld == dT.fields[f]
               c == ColNamed(IF fld.tag # <<>> THEN fld.tag ELSE toSnakeCase(fld.name))
           IN OwnName(f) =>
                 dRes.val[f] = IF c = 0 THEN Zero(fld.kind)
                               ELSE Decoded(fld.kind, dVals[c])

\* User decoded from a row with a column i_d, the derived name of ID, and no
\* column id: ID stays 0.
C10_Witness ==
    /\ dOp = "scanRow"
    /\ dT = User
    /\ ColNamed(id) = 0
    /\ ColNamed(i_d) # 0
    /\ dVals[ColNamed(i_d)] = SInt(1)
    /\ dRes.err = ""
    /\ dRes.val[1] = Zero("int")

\* ------------------------------------------------------------------- C11

\* strings.ToLower: every rune replaced by its lower-case form.
LowerAll(s) == [i \in 1..Len(s) |-> ToLower(s[i])]

\* s with '_' put before every upper-case rune but a first one.
UnderscoreBeforeUpper(s) ==
    LET ins[i \in 0..Len(s)] ==
            IF i = 0 THEN <<>>
            ELSE ins[i-1] \o (IF IsUpper(s[i]) /\ i > 1 THEN <<"_">> ELSE <<>>) \o <<s[i]>>
    IN ins[Len(s)]

\* The upper-case runes of s after its first rune, up to rune i.
UppersUpTo(s, i) == Cardinality({j \in 2..i : IsUpper(s[j])})

\* C11 (as stated): toSnakeCase(s) is s with '_' put before every upper-case
\* letter but a first one and the whole then lower-cased, and applying
\* toSnakeCase to its own result changes nothing.
C11_InsertThenLowerAllIdempotent ==
    /\ snOp \in {"once", "twice"} => snOut = LowerAll(UnderscoreBeforeUpper(snIn))
    /\ snOp = "twice" => snTwice = snOut

\* C11 (amended): rune i of s is written at place i plus the number of
\* upper-case runes before it after the first; an upper-case rune is written
\* as its unicode.ToLower, after a '_' unless it is first, and any other rune
\* as it is.  So a name with no upper-case rune is returned as given; the
\* result is the insert-then-lower-case-all string when no other rune of s
\* has a lower-case form; and a second application changes nothing when every
\* upper-case rune of s has a lower-case form that is not upper-case.
C11_LowersUpperRunesOnly ==
    /\ snOp \in {"once", "twice"} =>
          /\ Len(snOut) = Len(snIn) + UppersUpTo(snIn, Len(snIn))
          /\ \A i \in 1..Len(snIn) :
                LET at == i + UppersUpTo(snIn, i)
                IN IF IsUpper(snIn[i])
                   THEN /\ snOut[at] = ToLower(snIn[i])
                        /\ i > 1 => snOut[at - 1] = "_"
                   ELSE snOut[at] = snIn[i]
          /\ (\A i \in 1..Len(snIn) : ~IsUpper(snIn[i])) => snOut = snIn
          /\ (\A i \in 1..Len(snIn) : ~IsUpper(snIn[i]) => ToLower(snIn[i]) = snIn[i])
                => snOut = LowerAll(UnderscoreBeforeUpper(snIn))
    /\ snOp = "twice" =>
          ((\A i \in 1..Len(snIn) : IsUpper(snIn[i]) => ~IsUpper(ToLower(snIn[i])))
              => snTwice = snOut)

\* "aID" becomes "a_i_d", and "a_i_d" is returned as it is.
C11_Witness ==
    /\ snOp = "twice"
    /\ snIn = <<"a", "I", "D">>
    /\ snOut = <<"a", "_", "i", "_", "d">>
    /\ snTwice = snOut

\* ------------------------------------------------------------------- C12

\* The value item of the cursor's row j.
ValueOfRow(j) == Item("", scanRow(itT, itCols, itRows[j]).val)

\* C12: over a cursor of N rows that all decode, every value item ScanAll
\* delivers is the decoding of the row at its place; an iteration that ended
\* with fewer than N items and no error ended on the consumer's answer to a
\* yield; and an iteration that ended with the cursor exhausted (rows.Next
\* called N+1 times) and no iteration fault has delivered exactly N items,
\* none an error, the i-th the decoding of row i.
C12_AllRowsInCursorOrder ==
    (itMode = "ScanAll" /\ iteration = 1 /\ FirstBad = 0) =>
        /\ \A j \in 1..Len(delivered) :
              delivered[j].e = "" => (j <= Len(itRows) /\ delivered[j] = ValueOfRow(j))
        /\ (pc = "done" /\ Len(delivered) < Len(itRows)
               /\ \A j \in 1..Len(delivered) : delivered[j].e = "")
              => nextCalls = Len(delivered)
        /\ (pc = "done" /\ nextCalls = Len(itRows) + 1 /\ ~iterErr)
              => delivered = [j \in 1..Len(itRows) |-> ValueOfRow(j)]

\* ScanAll[User] has ended over three rows, the first two different, having
\* delivered three values.
C12_Witness ==
    /\ itMode = "ScanAll"
    /\ iteration = 1
    /\ pc = "done"
    /\ itT = User
    /\ Len(itRows) = 3
    /\ itRows[1] # itRows[2]
    /\ FirstBad = 0
    /\ Len(delivered) = 3
    /\ delivered[3].e = ""

\* ------------------------------------------------------------------- C13

\* C13: once one iteration of a ScanAll sequence has ended, a further
\* iteration of the same sequence value decodes no row, does not advance the
\* cursor and delivers no value item: it ends with the one error that
\* rows.Columns reports on the closed cursor.
C13_SinglePass ==
    (itMode = "ScanAll" /\ iteration >= 2) =>
        /\ scanCalls = 0
        /\ nextCalls = 0
        /\ \A j \in 1..Len(delivered) : delivered[j].e # ""
        /\ pc = "done" => delivered = <<Item("failed to get columns", ZeroOf(itT))>>

\* A second iteration has ended over a cursor of three decodable rows that
\* the first iteration left after its first row.
C13_Witness ==
    /\ itMode = "ScanAll"
    /\ iteration = 2
    /\ pc = "done"
    /\ Len(itRows) = 3
    /\ FirstBad = 0
    /\ pos = 1
    /\ ~iterErr
    /\ Len(delivered) = 1

\* ------------------------------------------------------------------- C14

\* C14: ScanAll is driven by the consumer.  Before the consumer starts to
\* iterate, and until the columns are read, the cursor is not advanced and
\* nothing is decoded.  The cursor is never more than one row ahead of the
\* items delivered, and is one ahead only while that row is being decoded;
\* the rows decoded never exceed the items delivered by more than one; and
\* while the consumer holds an item and has not answered, rows.Next has been
\* called, the cursor advanced and rows decoded exactly as often as items
\* were delivered.
C14_DemandDriven ==
    (itMode = "ScanAll" /\ iteration <= 1) =>
        /\ pc \in {"idle", "columns"} => (pos = 0 /\ nextCalls = 0 /\ scanCalls = 0)
        /\ pos <= Len(delivered) + 1
        /\ pos = Len(delivered) + 1 => pc \in {"step", "scanning"}
        /\ scanCalls <= Len(delivered) + 1
        /\ scanCalls <= pos
        /\ pc = "yield" =>
              /\ pos = Len(delivered)
              /\ nextCalls = Len(delivered)
              /\ scanCalls = Len(delivered)

\* The consumer holds the second item of a longer cursor and has not answered.
C14_Witness ==
    /\ itMode = "ScanAll"
    /\ iteration = 1
    /\ pc = "yield"
    /\ Len(delivered) = 2
    /\ Len(itRows) = 3
    /\ pos = 2

\* ------------------------------------------------------------------- C15

\* Settable fields f before g that resolve to one column name, which a
\* column of the row bears.
Collide(f, g) ==
    /\ f \in SettableOf(dT)
    /\ g \in SettableOf(dT)
    /\ f < g
    /\ ResolvedName(dT.fields[f]) = ResolvedName(dT.fields[g])
    /\ ColNamed(ResolvedName(dT.fields[f])) # 0

\* C15 (as stated): when two settable fields resolve to one column name,
\* name-based decoding gives the column's value to the first of them in
\* declaration order and leaves the other at its zero value.
C15_FirstFieldWins ==
    (dOp = "scanRow" /\ dT.struct /\ dRes.err = "") =>
        \A f, g \in 1..Len(dT.fields) :
           Collide(f, g) =>
              /\ dRes.val[f] = Decoded(dT.fields[f].kind,
                                       dVals[ColNamed(ResolvedName(dT.fields[f]))])
              /\ dRes.val[g] = Zero(dT.fields[g].kind)

\* C15 (amended): when two settable fields resolve to one column name,
\* name-based decoding leaves the earlier one at its zero value; the column's
\* value goes to the last field in declaration order that resolves to it.
C15_LastFieldWins ==
    (dOp = "scanRow" /\ dT.struct /\ dRes.err = "") =>
        \A f, g \in 1..Len(dT.fields) :
           Collide(f, g) =>
              /\ dRes.val[f] = Zero(dT.fields[f].kind)
              /\ (\A h \in SettableOf(dT) :
                     ResolvedName(dT.fields[h]) = ResolvedName(dT.fields[g]) => h <= g)
                    => dRes.val[g] = Decoded(dT.fields[g].kind,
                                             dVals[ColNamed(ResolvedName(dT.fields[g]))])

\* Alias decoded from a row whose column name holds 'a': Nick is empty and
\* Name is "a".
C15_Witness ==
    /\ dOp = "scanRow"
    /\ dT = Alias
    /\ ColNamed(name) # 0
    /\ dVals[ColNamed(name)] = SStr("a")
    /\ dRes.err = ""
    /\ dRes.val[1] = Zero("string")
    /\ dRes.val[2].s = "a"

\* ------------------------------------------------------------------- C16

ColumnsError == Item("failed to get columns", ZeroOf(itT))

\* C16: when ScanAll asks for the columns, either it gets them and delivers
\* nothing yet, or it delivers one error item and ends with the cursor where
\* it was; and an iteration in which that error was delivered has ended, with
\* that item alone, without a call of rows.Next or of scanRow.
C16_ColumnsFailureEndsAtOnce ==
    /\ [](itMode = "ScanAll" =>
            ((\E j \in 1..Len(delivered) : delivered[j] = ColumnsError) =>
                /\ pc = "done"
                /\ delivered = <<ColumnsError>>
                /\ nextCalls = 0
                /\ scanCalls = 0))
    /\ [][(itMode = "ScanAll" /\ pc = "columns" /\ pc' # "columns") =>
             \/ (pc' = "next" /\ delivered' = delivered)
             \/ (pc' = "done" /\ delivered' = <<ColumnsError>> /\ pos' = pos
                   /\ nextCalls' = 0 /\ scanCalls' = 0)]_vars

\* A first iteration over a cursor of rows has ended on the columns error.
C16_Witness ==
    /\ itMode = "ScanAll"
    /\ iteration = 1
    /\ pc = "done"
    /\ Len(itRows) = 2
    /\ pos = 0
    /\ delivered = <<ColumnsError>>

\* ------------------------------------------------------------------- C17

IterationError == Item("row iteration error", ZeroOf(itT))

\* C17: when ScanAll's loop has ended because rows.Next reported no further
\* row, every row the cursor reached has been delivered as a value; the
\* function then ends, having delivered one further item, the iteration
\* error, if rows.Err is non-nil and nothing if it is nil.  So an iteration
\* error is always the last item, after values only.
C17_IterationFaultReportedLast ==
    /\ [](itMode = "ScanAll" =>
            /\ pc = "err" =>
                  /\ Len(delivered) = pos
                  /\ \A j \in 1..Len(delivered) : delivered[j].e = ""
            /\ \A j \in 1..Len(delivered) :
                  delivered[j] = IterationError =>
                      /\ pc = "done"
                      /\ iterErr
                      /\ j = Len(delivered)
                      /\ j = pos + 1
                      /\ \A i \in 1..(j - 1) : delivered[i].e = "")
    /\ [][(itMode = "ScanAll" /\ pc = "err" /\ pc' # "err") =>
             /\ pc' = "done"
             /\ delivered' = IF iterErr THEN Append(delivered, IterationError)
                             ELSE delivered]_vars

\* Two values, then the fault that ended the cursor before its third row.
C17_Witness ==
    /\ itMode = "ScanAll"
    /\ pc = "done"
    /\ Len(itRows) = 3
    /\ pos = 2
    /\ Len(delivered) = 3
    /\ delivered[2].e = ""
    /\ delivered[3] = IterationError

\* ------------------------------------------------------------------- C18

\* The field column c is decoded into: the last settable field that resolves
\* to the column's name, 0 when no field does.
FieldOfColumn(c) ==
    LET fs == {f \in SettableOf(dT) : ResolvedName(dT.fields[f]) = dCols[c]}
    IN IF fs = {} THEN 0 ELSE CHOOSE f \in fs : \A g \in fs : g <= f

\* The field of kind k refuses value v: a value that does not convert, or
\* NULL for a primitive kind that has no nullable wrapper.
Refuses(k, v) ==
    IF v.t = "null" THEN k \in OtherPrimitiveKinds ELSE ~Converts(k, v)

\* C18: in name-based decoding of a record the only decode errors are values
\* refused by the field that bears their column's name: columns that no field
\* bears the name of, whatever they hold, and fields that no column bears the
\* name of, cause none.  When the decode succeeds, a field whose name no
\* column bears (and a field that is not settable) has its zero value and a
\* field whose name a column bears has that column's decoded value.
C18_MismatchIsNoError ==
    (dOp = "scanRow" /\ dT.struct) =>
        /\ dRes.err # "" <=>
              \E c \in 1..Len(dCols) :
                 /\ FieldOfColumn(c) # 0
                 /\ Refuses(dT.fields[FieldOfColumn(c)].kind, dVals[c])
        /\ dRes.err = "" =>
              \A f \in 1..Len(dT.fields) :
                 LET c == ColNamed(ResolvedName(dT.fields[f]))
                 IN IF f \notin SettableOf(dT) \/ c = 0
                    THEN dRes.val[f] = Zero(dT.fields[f].kind)
                    ELSE OwnName(f) => dRes.val[f] = Decoded(dT.fields[f].kind, dVals[c])

\* Pair decoded from a row with the columns secret (which no settable field
\* is called) holding a string and last holding 'a', and no column first:
\* no error, Last is "a", First and secret keep their zero values.
C18_Witness ==
    /\ dOp = "scanRow"
    /\ dT = Pair
    /\ ColNamed(secret) # 0
    /\ dVals[ColNamed(secret)] = SStr("a")
    /\ ColNamed(last) # 0
    /\ dVals[ColNamed(last)] = SStr("a")
    /\ ColNamed(first) = 0
    /\ dRes.err = ""
    /\ dRes.val[1] = Zero("string")
    /\ dRes.val[2].s = "a"
    /\ dRes.val[4] = Zero("int")

\* ------------------------------------------------------------------- C19

\* C19: an entry point called while the package's handle is nil returns the
\* 'database not initialized' error without dereferencing the handle.
C19_NilHandleReported ==
    (lastCall.fn # "none" /\ lastCall.nil) => lastCall.outcome = "not_initialized"

\* ------------------------------------------------------------------- C20

\* The close function that the Init that opened connection k returned.
OwnCloseFunc(k) == CHOOSE i \in 1..Len(closeFuncs) : closeFuncs[i].conn = k

\* C20: every connection opened by a successful Init is closed at most once,
\* by no other than the close function that Init returned, and is closed
\* once that function has been called; and a close function called more than
\* once has closed nothing and returned nil in its last call.
C20_CloseFuncClosesItsOwnConnection ==
    /\ \A k \in 1..Len(conns) :
          conns[k].ok =>
             /\ conns[k].closes <= 1
             /\ conns[k].by \subseteq {OwnCloseFunc(k)}
             /\ closeFuncs[OwnCloseFunc(k)].calls >= 1 => conns[k].closes = 1
    /\ \A i \in 1..Len(closeFuncs) :
          closeFuncs[i].calls >= 2 =>
             (closeFuncs[i].closed = 0 /\ closeFuncs[i].ret = "nil")

\* ------------------------------------------------------------------- C21

\* C21: a call of s3.Init that returns an error leaves client, uploader and
\* bucketName as they were before the call; and an Upload made while the
\* last Init, called with uploader nil, has failed returns the 'S3 uploader
\* not initialized' error.
C21_FailedInitChangesNothing ==
    /\ [][(s3Inits' # s3Inits /\ s3InitRes'.err # "") =>
             UNCHANGED <<client, uploader, bucketName>>]_vars
    /\ [][(uploadRes' # uploadRes /\ s3InitRes.err # "" /\ s3InitRes.nilBefore) =>
             uploadRes' = "S3 uploader not initialized"]_vars

====
